---- MODULE Spec2Model ----
(***************************************************************************)
(* A model of merge.py (cbz-merger): the pipeline that extracts the        *)
(* chapter archives of a directory, renames or converts their pages into   *)
(* one flat staging directory, and merges the staged units into one        *)
(* archive/document or into one per volume.                                *)
(*                                                                         *)
(* File names are sequences of character codes, so that the operations the *)
(* code applies to names (str.endswith, path.splitext, str(counter),       *)
(* natsorted, re.search) are computed rather than assumed.                 *)
(***************************************************************************)
EXTENDS Integers, Sequences, FiniteSets, TLC

VARIABLES
    call,       \* the arguments of a direct call of groupZips
    ret,        \* what that call returned
    args,       \* the parsed command line: [archive, volumize, pat, pdf]
    CPU_COUNT,  \* cpu_count(), read once at import
    cap,        \* the cap on the documents composed at once (line 192)
    pc,         \* where main() is
    exc,        \* the exception that ended main(), "" while there is none
    topfiles,   \* the files of main_dir: name -> [type, body]
    topdirs,    \* the directories of main_dir
    extracted,  \* main_dir/.extracted: chapter directory -> (entry -> data)
    staging,    \* main_dir/zipper: unit name -> data
    volfiles,   \* main_dir/zipped_volumes: name -> [type, body]
    pool,       \* the extraction tasks of pool.map: [pc, q, exc] each
    dirs,       \* the groups of chapter directories made by groupDirs
    ti,         \* main's loop index over dirs
    tw,         \* the transform worker processes started so far: [pc, q] each
    volumes,    \* the dictionary returned by getVolumes, in insertion order
    allImgs,    \* natsorted(os.listdir('.')) taken by mergeImages
    imgsSets,   \* the batches returned by segmentImgs
    queue,      \* the paths of the temporary documents
    counter,    \* the number of temporary documents asked for so far
    mi,         \* the loop index of mergeImages' current loop
    merger,     \* the pages appended to mergeImages' PdfWriter
    faults,     \* the I/O failures the environment has produced so far
    crashed,    \* the worker processes that ended with an unhandled error
    prev        \* the output archive/document of each earlier run on main_dir

pureVars == <<call, ret>>
fsVars == <<topfiles, topdirs, extracted, staging, volfiles>>
extractVars == <<pool>>
transformVars == <<dirs, ti, tw>>
mergeVars == <<volumes, allImgs, imgsSets, queue, counter, mi, merger>>
\* what a run of main() is given
envVars == <<args, CPU_COUNT, cap, prev>>
vars == <<call, ret, args, CPU_COUNT, cap, pc, exc, topfiles, topdirs,
          extracted, staging, volfiles, pool, dirs, ti, tw, volumes, allImgs,
          imgsSets, queue, counter, mi, merger, faults, crashed, prev>>

(***************************************************************************)
(* Bounds of the model.                                                    *)
(***************************************************************************)
MaxLen == 4         \* longest list handed to groupZips
MaxP == 3           \* largest number of groups asked of groupZips
MaxArchives == 2    \* most files in the directory main() is run on
MaxCpu == 2         \* largest cpu_count()
MaxFaults == 1      \* most I/O failures in one run
MaxChapters == 3    \* most staged chapters a merge starts from
MaxUnits == 5       \* most units of the staging directory a merge starts from
MaxCap == 3         \* largest cap a merge is run with
MaxRuns == 1        \* most runs of main() after the first on one directory

(***************************************************************************)
(* Characters and strings.                                                 *)
(***************************************************************************)
Ord == [sp |-> 32, dash |-> 45, dot |-> 46, d0 |-> 48, d9 |-> 57,
        A |-> 65, B |-> 66, a |-> 97, b |-> 98, z |-> 122]

IsDigit(c) == c >= Ord.d0 /\ c <= Ord.d9

\* str(n) for n >= 0
RECURSIVE str(_)
str(n) == IF n < 10 THEN <<Ord.d0 + n>>
          ELSE str(n \div 10) \o <<Ord.d0 + (n % 10)>>

\* s.endswith(suffix)
endswith(s, suffix) ==
    /\ Len(suffix) <= Len(s)
    /\ SubSeq(s, Len(s) - Len(suffix) + 1, Len(s)) = suffix

\* path.splitext(p) on a name without directory part: the extension starts
\* at the last dot, unless that dot is only preceded by dots.
LastDot(s) ==
    LET dots == {i \in 1..Len(s) : s[i] = Ord.dot}
    IN  IF dots = {} THEN 0 ELSE CHOOSE i \in dots : \A j \in dots : j <= i

splitext(s) ==
    LET d == LastDot(s)
        lead == d > 0 /\ \A j \in 1..d : s[j] = Ord.dot
    IN  IF d = 0 \/ lead THEN <<s, <<>>>>
        ELSE <<SubSeq(s, 1, d - 1), SubSeq(s, d, Len(s))>>

(***************************************************************************)
(* natsorted (natsort's default key): a name is split into maximal runs    *)
(* of non-digits and digits; the key alternates string, number, string,    *)
(* ... starting with a (possibly empty) string; keys compare as Python     *)
(* tuples, strings by code point and numbers by value.                     *)
(***************************************************************************)
RECURSIVE LeadLen(_, _)
LeadLen(s, digit) ==
    IF s = <<>> \/ IsDigit(Head(s)) # digit THEN 0
    ELSE 1 + LeadLen(Tail(s), digit)

RECURSIVE ToInt(_, _)
ToInt(s, acc) ==
    IF s = <<>> THEN acc ELSE ToInt(Tail(s), acc * 10 + (Head(s) - Ord.d0))

\* odd positions hold strings, even positions hold numbers
RECURSIVE natsort_key(_)
natsort_key(s) ==
    IF s = <<>> THEN <<>>
    ELSE LET k == LeadLen(s, FALSE)
             rest == SubSeq(s, k + 1, Len(s))
             d == LeadLen(rest, TRUE)
         IN  IF d = 0 THEN <<SubSeq(s, 1, k)>>
             ELSE <<SubSeq(s, 1, k), ToInt(SubSeq(rest, 1, d), 0)>>
                  \o natsort_key(SubSeq(rest, d + 1, Len(rest)))

\* -1, 0, 1: the order of two strings by code point
RECURSIVE StrCmp(_, _)
StrCmp(s, t) ==
    IF s = <<>> THEN (IF t = <<>> THEN 0 ELSE -1)
    ELSE IF t = <<>> THEN 1
    ELSE IF Head(s) < Head(t) THEN -1
    ELSE IF Head(s) > Head(t) THEN 1
    ELSE StrCmp(Tail(s), Tail(t))

RECURSIVE KeyCmp(_, _, _)
KeyCmp(k1, k2, i) ==
    IF i > Len(k1) THEN (IF i > Len(k2) THEN 0 ELSE -1)
    ELSE IF i > Len(k2) THEN 1
    ELSE LET c == IF i % 2 = 1 THEN StrCmp(k1[i], k2[i])
                  ELSE IF k1[i] < k2[i] THEN -1
                  ELSE IF k1[i] > k2[i] THEN 1 ELSE 0
         IN  IF c # 0 THEN c ELSE KeyCmp(k1, k2, i + 1)

NatCmp(s, t) == KeyCmp(natsort_key(s), natsort_key(t), 1)

\* sorted() is stable: x goes after the elements that do not compare greater
RECURSIVE InsertSorted(_, _)
InsertSorted(sorted, x) ==
    IF sorted = <<>> THEN <<x>>
    ELSE LET last == sorted[Len(sorted)]
         IN  IF NatCmp(last, x) <= 0 THEN Append(sorted, x)
             ELSE Append(InsertSorted(SubSeq(sorted, 1, Len(sorted) - 1), x), last)

RECURSIVE natsorted(_)
natsorted(names) ==
    IF names = <<>> THEN <<>>
    ELSE InsertSorted(natsorted(SubSeq(names, 1, Len(names) - 1)),
                      names[Len(names)])

(***************************************************************************)
(* What a call produces: a value, or the exception it raises.              *)
(***************************************************************************)
Return(v) == [exc |-> "", val |-> v]
Raise(e) == [exc |-> e, val |-> <<>>]
Pending == [exc |-> "pending", val |-> <<>>]

(***************************************************************************)
(* groupZips(zips, n) == [zips[i::n] for i in range(n)]                    *)
(***************************************************************************)
\* zips[i::n] for 0 <= i, 1 <= n (0-based start i, step n)
SliceFrom(zips, i, n) ==
    LET cnt == IF Len(zips) <= i THEN 0 ELSE ((Len(zips) - i - 1) \div n) + 1
    IN  [j \in 1..cnt |-> zips[i + 1 + (j - 1) * n]]

\* a mutation: contiguous slices instead of every n-th element
groupZips_contiguous(zips, n) ==
    LET size == IF n >= 1 THEN (Len(zips) + n - 1) \div n ELSE 0
    IN  [g \in 1..n |->
            SubSeq(zips, IF (g - 1) * size + 1 <= Len(zips) THEN (g - 1) * size + 1
                         ELSE Len(zips) + 1,
                   IF g * size <= Len(zips) THEN g * size ELSE Len(zips))]

\* range(n) is empty for n <= 0: the comprehension is then the empty list
groupZips(zips, n) == [g \in 1..n |-> SliceFrom(zips, g - 1, n)]

groupDirs(zips, n) == groupZips(zips, n)

(***************************************************************************)
(* segmentImgs(imgs, cap), lines 231-242                                   *)
(***************************************************************************)
\* a mutation: "<" for "<=" in the test that ends the recursion
RECURSIVE segmentImgs_lt(_, _)
segmentImgs_lt(imgs, c) ==
    IF Len(imgs) < c THEN <<imgs>>
    ELSE <<SubSeq(imgs, 1, c)>> \o segmentImgs_lt(SubSeq(imgs, c + 1, Len(imgs)), c)

RECURSIVE segmentImgs(_, _)
segmentImgs(imgs, c) ==
    IF Len(imgs) <= c THEN <<imgs>>
    ELSE <<SubSeq(imgs, 1, c)>> \o segmentImgs(SubSeq(imgs, c + 1, Len(imgs)), c)

(***************************************************************************)
(* getVolumes(dir, args), lines 244-275                                    *)
(***************************************************************************)
\* re.search(pat, s) for a character class pat: the first character of s in
\* the class, or None
re_search(pat, s) ==
    LET hits == {j \in 1..Len(s) : s[j] \in pat}
    IN  IF hits = {} THEN [found |-> FALSE, m |-> <<>>]
        ELSE [found |-> TRUE,
              m |-> <<s[CHOOSE j \in hits : \A h \in hits : j <= h]>>]

\* volumes[k] = v on a dict kept in insertion order: an existing key keeps
\* its place and gets the new value
DictSet(d, k, v) ==
    IF \E j \in 1..Len(d) : d[j].k = k
    THEN [j \in 1..Len(d) |-> IF d[j].k = k THEN [k |-> k, v |-> v] ELSE d[j]]
    ELSE Append(d, [k |-> k, v |-> v])

\* the loop of lines 260-271 from image j on, then line 274
RECURSIVE VolumesLoop(_, _, _, _, _, _)
VolumesLoop(imgs, j, pat, currentVol, matches, vols) ==
    IF j > Len(imgs) THEN Return(DictSet(vols, currentVol, matches))
    ELSE LET r == re_search(pat, imgs[j])
         IN  IF ~r.found THEN Raise("TypeError")
             ELSE IF r.m = currentVol
             THEN VolumesLoop(imgs, j + 1, pat, currentVol, Append(matches, imgs[j]), vols)
             ELSE VolumesLoop(imgs, j + 1, pat, r.m, <<imgs[j]>>,
                              DictSet(vols, currentVol, matches))

\* listing is os.listdir(dir)
getVolumes(listing, pat) ==
    LET imgs == natsorted(listing)
    IN  IF imgs = <<>> THEN Raise("IndexError")
        ELSE LET first == re_search(pat, imgs[1])
             IN  IF ~first.found THEN Raise("TypeError")
                 ELSE VolumesLoop(imgs, 1, pat, first.m, <<>>, <<>>)


(***************************************************************************)
(* Names the program uses.                                                 *)
(***************************************************************************)
EXTRACT_DIR == <<46, 101, 120, 116, 114, 97, 99, 116, 101, 100>>  \* ".extracted"
ZIP_DIR == <<122, 105, 112, 112, 101, 114>>                       \* "zipper"
VOLS_DIR == <<122, 105, 112, 112, 101, 100, 95, 118, 111, 108, 117, 109, 101, 115>>
                                                                  \* "zipped_volumes"
DefaultArchive == <<67, 66, 90, 95, 65, 114, 99, 104, 105, 118, 101>>  \* "CBZ_Archive"
ExtCbz == <<46, 99, 98, 122>>   \* ".cbz"
ExtZip == <<46, 122, 105, 112>> \* ".zip"
ExtPdf == <<46, 112, 100, 102>> \* ".pdf"
ExtJpg == <<46, 106, 112, 103>> \* ".jpg"

OpenFilesCap == 250

askIfPdf(a) == a.pdf

ARCHIVE_EXT(a) == IF askIfPdf(a) THEN ExtPdf ELSE ExtCbz

(***************************************************************************)
(* Directories as finite maps.                                             *)
(***************************************************************************)
EmptyMap == [x \in {} |-> x]
Put(f, k, v) == [x \in DOMAIN f \cup {k} |-> IF x = k THEN v ELSE f[x]]
Drop(f, k) == [x \in DOMAIN f \ {k} |-> f[x]]
\* g's entries written over f's
Overwrite(f, g) == [x \in DOMAIN f \cup DOMAIN g |->
                        IF x \in DOMAIN g THEN g[x] ELSE f[x]]

RECURSIVE Perms(_)
Perms(S) == IF S = {} THEN {<<>>}
            ELSE UNION {{<<x>> \o p : p \in Perms(S \ {x})} : x \in S}

\* os.listdir where the order of the listing does not matter to the caller
\* (it is handed to natsorted, and the names of one directory have distinct
\* natsort keys)
RECURSIVE listdir(_)
listdir(S) == IF S = {} THEN <<>>
              ELSE LET x == CHOOSE y \in S : TRUE IN <<x>> \o listdir(S \ {x})

\* makeDirectory(name) in main_dir, run without interruption: a no-op when
\* the directory is there
makeDirectory(ds, name) == IF name \in ds THEN ds ELSE ds \cup {name}

(***************************************************************************)
(* The directories main() is run on: at most MaxArchives of these files.   *)
(* The data of a page is the pair <<archive, entry>> it comes from.        *)
(***************************************************************************)
ArchiveFile(name, entries) ==
    [type |-> "zip",
     body |-> [j \in 1..Len(entries) |-> [name |-> entries[j], data |-> <<name, entries[j]>>]]]

Catalog ==
    LET A == <<65, 46, 99, 98, 122>>             \* "A.cbz"
        B == <<66, 46, 99, 98, 122>>             \* "B.cbz"
        Ab == <<65, 32, 98, 46, 99, 98, 122>>    \* "A b.cbz"
        Az == <<65, 46, 122, 105, 112>>          \* "A.zip"
        n == <<110, 46, 116, 120, 116>>          \* "n.txt"
        p1 == <<49, 46, 106, 112, 103>>          \* "1.jpg"
        p2 == <<50, 46, 106, 112, 103>>          \* "2.jpg"
        p10 == <<49, 48, 46, 106, 112, 103>>     \* "10.jpg"
        q2 == <<50, 46, 112, 110, 103>>          \* "2.png"
    IN  [f \in {A, B, Ab, Az, n} |->
            IF f = A THEN ArchiveFile(A, <<p10, p2>>)
            ELSE IF f = B THEN ArchiveFile(B, <<p1>>)
            ELSE IF f = Ab THEN ArchiveFile(Ab, <<p1>>)
            ELSE IF f = Az THEN ArchiveFile(Az, <<p2, q2>>)
            ELSE [type |-> "other", body |-> <<>>]]

Roots == {[f \in S |-> Catalog[f]] :
            S \in {T \in SUBSET DOMAIN Catalog : Cardinality(T) <= MaxArchives}}

\* --volumize patterns are character classes: re.search(pat, s) finds the
\* first character of s in the class
PatAB == {Ord.A, Ord.B}

ArgsOf(pdf, volumize, pat) ==
    [archive |-> DefaultArchive, volumize |-> volumize, pat |-> pat, pdf |-> pdf]

NoCall == [zips |-> <<>>, n |-> 0]
\* no worker process has been started
NoWorker == <<>>

\* nothing of mergeImages has run
MergeIdle ==
    /\ volumes = <<>>
    /\ allImgs = <<>>
    /\ imgsSets = <<>>
    /\ queue = <<>>
    /\ counter = 0
    /\ mi = 0
    /\ merger = <<>>

Init ==
    /\ call = NoCall
    /\ ret = Pending
    /\ \E pdf \in BOOLEAN :
          args \in {ArgsOf(pdf, FALSE, {}), ArgsOf(pdf, TRUE, PatAB)}
    /\ CPU_COUNT \in 1..MaxCpu
    /\ cap = OpenFilesCap
    /\ pc = "start"
    /\ exc = ""
    /\ topfiles \in Roots
    /\ topdirs = {}
    /\ extracted = EmptyMap
    /\ staging = EmptyMap
    /\ volfiles = EmptyMap
    /\ pool = <<>>
    /\ dirs = <<>>
    /\ ti = 0
    /\ tw = NoWorker
    /\ MergeIdle
    /\ faults = 0
    /\ crashed = {}
    /\ prev = <<>>

(***************************************************************************)
(* main(), lines 52-59: the extraction stage.                              *)
(***************************************************************************)
\* makeDirectory(EXTRACT_DIR); zips = groupZips(os.listdir('.'), CPU_COUNT);
\* pool.map(extractCbz, zips) hands one group to each task. A task reads its
\* group through natsorted only.
MainStart ==
    /\ pc = "start"
    /\ topdirs' = makeDirectory(topdirs, EXTRACT_DIR)
    /\ \E listing \in Perms(DOMAIN topfiles \cup topdirs') :
          LET zips == groupZips(listing, CPU_COUNT)
          IN  pool' = [g \in 1..Len(zips) |->
                          [pc |-> "next", q |-> natsorted(zips[g]), exc |-> ""]]
    /\ pc' = "extract"
    /\ UNCHANGED <<pureVars, envVars, exc, topfiles, extracted, staging, volfiles,
                   transformVars, mergeVars, faults, crashed>>

\* the chapter directory of an archive: the name without its extension
ChapterOf(file) == splitext(file)[1]

\* extractCbz, lines 89-99: the head of the loop, up to makeDirectory's
\* path.isdir test
ExtractNext(w) ==
    /\ pc = "extract"
    /\ pool[w].pc = "next"
    /\ IF pool[w].q = <<>>
       THEN pool' = [pool EXCEPT ![w].pc = "done"]
       ELSE LET file == Head(pool[w].q)
            IN  IF \/ ~(endswith(file, ExtCbz) \/ endswith(file, ExtZip))
                   \/ file = EXTRACT_DIR
                   \/ file = ZIP_DIR
                   \/ file \notin DOMAIN topfiles
                THEN pool' = [pool EXCEPT ![w].q = Tail(@)]
                ELSE IF ChapterOf(file) \in DOMAIN extracted
                THEN pool' = [pool EXCEPT ![w].pc = "unzip"]
                ELSE pool' = [pool EXCEPT ![w].pc = "mkdir"]
    /\ UNCHANGED <<pureVars, envVars, pc, exc, fsVars, transformVars, mergeVars,
                   faults, crashed>>

\* makeDirectory, line 360: os.mkdir after the test found no directory
ExtractMkdir(w) ==
    /\ pc = "extract"
    /\ pool[w].pc = "mkdir"
    /\ LET name == ChapterOf(Head(pool[w].q))
       IN  IF name \in DOMAIN extracted
           THEN /\ pool' = [pool EXCEPT ![w].pc = "failed",
                                        ![w].exc = "FileExistsError"]
                /\ crashed' = crashed \cup {<<"extract", w>>}
                /\ UNCHANGED extracted
           ELSE /\ pool' = [pool EXCEPT ![w].pc = "unzip"]
                /\ extracted' = Put(extracted, name, EmptyMap)
                /\ UNCHANGED crashed
    /\ UNCHANGED <<pureVars, envVars, pc, exc, topfiles, topdirs, staging, volfiles,
                   transformVars, mergeVars, faults>>

\* the entries of an archive as a directory
EntriesOf(file) ==
    LET body == topfiles[file].body
    IN  [e \in {body[j].name : j \in 1..Len(body)} |->
            (CHOOSE j \in 1..Len(body) : body[j].name = e) ]

ExtractAll(dir, file) ==
    LET body == topfiles[file].body
        idx == EntriesOf(file)
    IN  Overwrite(dir, [e \in DOMAIN idx |-> body[idx[e]].data])

\* extractCbz, lines 103-104: ZipFile(file).extractall(extract_path), or the
\* archive cannot be read
ExtractUnzip(w) ==
    /\ pc = "extract"
    /\ pool[w].pc = "unzip"
    /\ LET file == Head(pool[w].q)
           name == ChapterOf(file)
       IN  \/ /\ extracted' = Put(extracted, name, ExtractAll(extracted[name], file))
              /\ pool' = [pool EXCEPT ![w].pc = "next", ![w].q = Tail(@)]
              /\ UNCHANGED <<faults, crashed>>
           \/ /\ faults < MaxFaults
              /\ faults' = faults + 1
              /\ pool' = [pool EXCEPT ![w].pc = "failed", ![w].exc = "BadZipFile"]
              /\ crashed' = crashed \cup {<<"extract", w>>}
              /\ UNCHANGED extracted
    /\ UNCHANGED <<pureVars, envVars, pc, exc, topfiles, topdirs, staging, volfiles,
                   transformVars, mergeVars>>

\* once every task has ended, pool.map re-raises the exception of a failed
\* task in main(), which prints it and raises it again (lines 71-73)
ExtractRaise ==
    /\ pc = "extract"
    /\ \A w \in 1..Len(pool) : pool[w].pc \in {"done", "failed"}
    /\ \E w \in 1..Len(pool) :
          /\ pool[w].pc = "failed"
          /\ exc' = pool[w].exc
    /\ pc' = "failed"
    /\ UNCHANGED <<pureVars, envVars, fsVars, extractVars, transformVars, mergeVars,
                   faults, crashed>>

(***************************************************************************)
(* main(), lines 61-67: the transformation stage.                          *)
(***************************************************************************)
Dash == <<Ord.dash>>

\* the name both renameKeepExtension (line 316) and convertToPdf (line 290)
\* give the unit of page number n of chapter dir
UnitName(dir, n, img, isPdf) ==
    dir \o Dash \o str(n) \o (IF isPdf THEN ExtPdf ELSE splitext(img)[2])

\* mapExtractedImages, lines 335-347, for one chapter: the units of its first
\* k pages in natsorted order
UnitsOf(dir, entries, k, isPdf) ==
    LET pages == natsorted(listdir(DOMAIN entries))
        names == {UnitName(dir, j - 1, pages[j], isPdf) : j \in 1..k}
    IN  [u \in names |->
            entries[pages[CHOOSE j \in 1..k : UnitName(dir, j - 1, pages[j], isPdf) = u]]]

\* a mutation: a map that returns with the first task that is done
PoolMapReturned_first == \E w \in 1..Len(pool) : pool[w].pc = "done"

\* pool.map(extractCbz, zips) returns once every task is done
PoolMapReturned == \A w \in 1..Len(pool) : pool[w].pc = "done"

\* makeDirectory(ZIP_DIR); dirs = groupDirs(os.listdir(EXTRACT_DIR), CPU_COUNT),
\* after pool.map has returned. A worker reads its group through natsorted
\* only.
TransformBegin ==
    /\ pc = "extract"
    /\ PoolMapReturned
    /\ topdirs' = makeDirectory(topdirs, ZIP_DIR)
    /\ \E listing \in Perms(DOMAIN extracted) :
          LET groups == groupDirs(listing, CPU_COUNT)
          IN  dirs' = [g \in 1..Len(groups) |-> natsorted(groups[g])]
    /\ ti' = 0
    /\ pc' = "transform"
    /\ UNCHANGED <<pureVars, envVars, exc, topfiles, extracted, staging, volfiles,
                   extractVars, tw, mergeVars, faults, crashed>>

\* p = Process(target=mapExtractedImages, args=(dirs[i], ...)); p.start():
\* the worker of group i is the i-th process started
TransformStart ==
    /\ pc = "transform"
    /\ ti < Len(dirs)
    /\ Len(tw) = ti
    /\ tw' = Append(tw, [pc |-> "running", q |-> dirs[ti + 1]])
    /\ UNCHANGED <<pureVars, envVars, pc, exc, fsVars, extractVars, dirs, ti,
                   mergeVars, faults, crashed>>

\* worker i handles its next chapter; a page that cannot be read or
\* written ends the worker process after the pages before it
TransformChapter(i) ==
    /\ pc = "transform"
    /\ tw[i].pc = "running"
    /\ tw[i].q # <<>>
    /\ LET dir == Head(tw[i].q)
           n == Cardinality(DOMAIN extracted[dir])
       IN  \/ /\ staging' = Overwrite(staging, UnitsOf(dir, extracted[dir], n, askIfPdf(args)))
              /\ tw' = [tw EXCEPT ![i].q = Tail(@)]
              /\ UNCHANGED <<faults, crashed>>
           \/ /\ faults < MaxFaults
              /\ \E k \in 0..(n - 1) :
                    staging' = Overwrite(staging, UnitsOf(dir, extracted[dir], k, askIfPdf(args)))
              /\ tw' = [tw EXCEPT ![i].pc = "crashed"]
              /\ faults' = faults + 1
              /\ crashed' = crashed \cup {<<"transform", i>>}
    /\ UNCHANGED <<pureVars, envVars, pc, exc, topfiles, topdirs, extracted, volfiles,
                   extractVars, dirs, ti, mergeVars>>

\* a mutation: a join that returns while the process is still at work
Ended_atOnce(p) == TRUE

\* the worker process has ended: an error ended it, or it has handled every
\* chapter of its group
Ended(p) == p.pc = "crashed" \/ p.q = <<>>

\* p.join() returns when the worker process has ended, however it ended
TransformJoin ==
    /\ pc = "transform"
    /\ Len(tw) = ti + 1
    /\ Ended(tw[ti + 1])
    /\ ti' = ti + 1
    /\ UNCHANGED <<pureVars, envVars, pc, exc, fsVars, extractVars, dirs, tw,
                   mergeVars, faults, crashed>>

(***************************************************************************)
(* mergeImages(args), lines 134-227.                                       *)
(***************************************************************************)
ARCHIVE(a) == a.archive \o ARCHIVE_EXT(a)

\* line 197: the path of temporary document number n
TempPath(a, n) == a.archive \o Dash \o str(n) \o ARCHIVE_EXT(a)

\* the loop over dirs has ended and main() calls mergeImages
TransformOver ==
    /\ pc = "transform"
    /\ ti = Len(dirs)
    /\ Len(tw) = ti

\* what ZipFile.write stores for the units imgs, and what PdfWriter.append
\* collects from them
ZipEntries(imgs) == [j \in 1..Len(imgs) |-> [name |-> imgs[j], data |-> staging[imgs[j]]]]
PdfPages(imgs) == [j \in 1..Len(imgs) |-> staging[imgs[j]]]

\* lines 143-159: the volumized branch up to getVolumes
MergeVolumize ==
    /\ TransformOver
    /\ args.volumize
    /\ topdirs' = makeDirectory(topdirs, VOLS_DIR)
    /\ LET r == getVolumes(listdir(DOMAIN staging), args.pat)
       IN  IF r.exc # ""
           THEN /\ pc' = "failed"
                /\ exc' = r.exc
                /\ UNCHANGED volumes
           ELSE /\ pc' = "volumes"
                /\ volumes' = r.val
                /\ UNCHANGED exc
    /\ mi' = 0
    /\ UNCHANGED <<pureVars, envVars, topfiles, extracted, staging, volfiles,
                   extractVars, transformVars, allImgs, imgsSets, queue, counter,
                   merger, faults, crashed>>

\* makeVolume(path, isPdf, imgs), lines 400-418, as far as it gets: every
\* unit (all = TRUE), or the first k units and then an error
makeVolume(files, path, isPdf, imgs, k, all) ==
    IF isPdf
    THEN IF all THEN Put(files, path, [type |-> "pdf", body |-> PdfPages(imgs)])
         ELSE files
    ELSE Put(files, path, [type |-> "zip", body |-> ZipEntries(SubSeq(imgs, 1, k))])

\* lines 163-180: one pass of the loop over volumes.items(): a process runs
\* makeVolume and is joined, however it ended
MakeVolume ==
    /\ pc = "volumes"
    /\ mi < Len(volumes)
    /\ LET path == volumes[mi + 1].k \o ARCHIVE_EXT(args)
           imgs == volumes[mi + 1].v
       IN  \/ /\ volfiles' = makeVolume(volfiles, path, askIfPdf(args), imgs,
                                        Len(imgs), TRUE)
              /\ UNCHANGED <<faults, crashed>>
           \/ /\ faults < MaxFaults
              /\ \E k \in 0..(Len(imgs) - 1) :
                    volfiles' = makeVolume(volfiles, path, askIfPdf(args), imgs, k, FALSE)
              /\ faults' = faults + 1
              /\ crashed' = crashed \cup {<<"volume", mi + 1>>}
    /\ mi' = mi + 1
    /\ UNCHANGED <<pureVars, envVars, pc, exc, topfiles, topdirs, extracted, staging,
                   extractVars, transformVars, volumes, allImgs, imgsSets, queue,
                   counter, merger>>

\* lines 183-195: the default branch for documents, up to segmentImgs
MergePdf ==
    /\ TransformOver
    /\ ~args.volumize
    /\ askIfPdf(args)
    /\ topdirs' = makeDirectory(topdirs, VOLS_DIR)
    /\ allImgs' = natsorted(listdir(DOMAIN staging))
    /\ imgsSets' = segmentImgs(allImgs', cap)
    /\ queue' = <<>>
    /\ counter' = 0
    /\ mi' = 0
    /\ merger' = <<>>
    /\ pc' = "pdf"
    /\ UNCHANGED <<pureVars, envVars, exc, topfiles, extracted, staging, volfiles,
                   extractVars, transformVars, volumes, faults, crashed>>

\* lines 196-202: one pass of the loop over imgsSets: a process runs
\* makeTempPdf (lines 385-397) and is joined, however it ended
MakeTempPdf ==
    /\ pc = "pdf"
    /\ counter < Len(imgsSets)
    /\ LET temp == TempPath(args, counter)
       IN  /\ \/ /\ topfiles' = Put(topfiles, temp,
                                    [type |-> "pdf", body |-> PdfPages(imgsSets[counter + 1])])
                 /\ UNCHANGED <<faults, crashed>>
              \/ /\ faults < MaxFaults
                 /\ faults' = faults + 1
                 /\ crashed' = crashed \cup {<<"temp", counter + 1>>}
                 /\ UNCHANGED topfiles
           /\ queue' = Append(queue, temp)
    /\ counter' = counter + 1
    /\ UNCHANGED <<pureVars, envVars, pc, exc, topdirs, extracted, staging, volfiles,
                   extractVars, transformVars, volumes, allImgs, imgsSets, mi, merger>>

\* lines 209-216: merger.append(queue[i])
MergerAppend ==
    /\ pc = "pdf"
    /\ counter = Len(imgsSets)
    /\ mi < Len(queue)
    /\ LET currentFile == queue[mi + 1]
       IN  IF currentFile \notin DOMAIN topfiles
           THEN /\ pc' = "failed"
                /\ exc' = "FileNotFoundError"
                /\ UNCHANGED <<merger, mi, faults>>
           ELSE \/ /\ merger' = merger \o topfiles[currentFile].body
                   /\ mi' = mi + 1
                   /\ UNCHANGED <<pc, exc, faults>>
                \/ /\ faults < MaxFaults
                   /\ faults' = faults + 1
                   /\ pc' = "failed"
                   /\ exc' = "OSError"
                   /\ UNCHANGED <<merger, mi>>
    /\ UNCHANGED <<pureVars, envVars, fsVars, extractVars, transformVars, volumes,
                   allImgs, imgsSets, queue, counter, crashed>>

\* lines 217-218: merger.write(ARCHIVE)
MergerWrite ==
    /\ pc = "pdf"
    /\ counter = Len(imgsSets)
    /\ mi = Len(queue)
    /\ topfiles' = Put(topfiles, ARCHIVE(args), [type |-> "pdf", body |-> merger])
    /\ pc' = "cleanup"
    /\ UNCHANGED <<pureVars, envVars, exc, topdirs, extracted, staging, volfiles,
                   extractVars, transformVars, mergeVars, faults, crashed>>

\* a mutation: the path is popped and the file is left in place
RemovePopped_keep(files, q) == files

\* os.remove(queue.pop()): the file at the last path of the queue goes
RemovePopped(files, q) == Drop(files, q[Len(q)])

\* lines 220-221: one pass of the clean-up loop
Cleanup ==
    /\ pc = "cleanup"
    /\ queue # <<>>
    /\ IF queue[Len(queue)] \in DOMAIN topfiles
       THEN /\ topfiles' = RemovePopped(topfiles, queue)
            /\ UNCHANGED <<pc, exc>>
       ELSE /\ pc' = "failed"
            /\ exc' = "FileNotFoundError"
            /\ UNCHANGED topfiles
    /\ queue' = SubSeq(queue, 1, Len(queue) - 1)
    /\ UNCHANGED <<pureVars, envVars, topdirs, extracted, staging, volfiles,
                   extractVars, transformVars, volumes, allImgs, imgsSets, counter,
                   mi, merger, faults, crashed>>

\* lines 183-184 and 224-225: the default branch for archives: ZipFile(ARCHIVE,
\* 'w') creates the archive, then the staging directory is listed
MergeZip ==
    /\ TransformOver
    /\ ~args.volumize
    /\ ~askIfPdf(args)
    /\ topdirs' = makeDirectory(topdirs, VOLS_DIR)
    /\ topfiles' = Put(topfiles, ARCHIVE(args), [type |-> "zip", body |-> <<>>])
    /\ allImgs' = natsorted(listdir(DOMAIN staging))
    /\ mi' = 0
    /\ pc' = "zip"
    /\ UNCHANGED <<pureVars, envVars, exc, extracted, staging, volfiles, extractVars,
                   transformVars, volumes, imgsSets, queue, counter, merger, faults,
                   crashed>>

\* lines 225-227: zf.write(img), or the write fails
ZipWrite ==
    /\ pc = "zip"
    /\ mi < Len(allImgs)
    /\ \/ /\ topfiles' = [topfiles EXCEPT ![ARCHIVE(args)].body =
                             @ \o ZipEntries(<<allImgs[mi + 1]>>)]
          /\ mi' = mi + 1
          /\ UNCHANGED <<pc, exc, faults>>
       \/ /\ faults < MaxFaults
          /\ faults' = faults + 1
          /\ pc' = "failed"
          /\ exc' = "OSError"
          /\ UNCHANGED <<topfiles, mi>>
    /\ UNCHANGED <<pureVars, envVars, topdirs, extracted, staging, volfiles,
                   extractVars, transformVars, volumes, allImgs, imgsSets, queue,
                   counter, merger, crashed>>

\* mergeImages returns and main prints 'All done!' (line 76)
AllDone ==
    /\ \/ pc = "volumes" /\ mi = Len(volumes)
       \/ pc = "cleanup" /\ queue = <<>>
       \/ pc = "zip" /\ mi = Len(allImgs)
    /\ pc' = "done"
    /\ UNCHANGED <<pureVars, envVars, exc, fsVars, extractVars, transformVars,
                   mergeVars, faults, crashed>>

\* merge.py is run once more on main_dir with the same command line, after a
\* run in default mode that ended with 'All done!' and no failed worker: the
\* files and directories are as that run left them
Rerun ==
    /\ pc = "done"
    /\ ~args.volumize
    /\ crashed = {}
    /\ Len(prev) < MaxRuns
    /\ prev' = Append(prev, topfiles[ARCHIVE(args)])
    /\ pc' = "start"
    /\ pool' = <<>>
    /\ dirs' = <<>>
    /\ ti' = 0
    /\ tw' = NoWorker
    /\ volumes' = <<>>
    /\ allImgs' = <<>>
    /\ imgsSets' = <<>>
    /\ queue' = <<>>
    /\ counter' = 0
    /\ mi' = 0
    /\ merger' = <<>>
    /\ UNCHANGED <<pureVars, args, CPU_COUNT, cap, exc, fsVars, faults, crashed>>

NextMerge ==
    \/ MergeVolumize
    \/ MakeVolume
    \/ MergePdf
    \/ MakeTempPdf
    \/ MergerAppend
    \/ MergerWrite
    \/ Cleanup
    \/ MergeZip
    \/ ZipWrite
    \/ AllDone

Next ==
    \/ MainStart
    \/ \E w \in 1..Len(pool) : ExtractNext(w)
    \/ \E w \in 1..Len(pool) : ExtractMkdir(w)
    \/ \E w \in 1..Len(pool) : ExtractUnzip(w)
    \/ ExtractRaise
    \/ TransformBegin
    \/ TransformStart
    \/ \E i \in 1..Len(tw) : TransformChapter(i)
    \/ TransformJoin
    \/ NextMerge

Spec == Init /\ [][Next]_vars

\* runs of main() one after the other on the same directory
NextRerun ==
    \/ Next
    \/ Rerun

SpecRerun == Init /\ [][NextRerun]_vars

(***************************************************************************)
(* SpecMerge: mergeImages started on a staging directory that extraction   *)
(* and transformation of up to MaxChapters chapters have filled with up to *)
(* MaxUnits units, with the cap on composed documents drawn from           *)
(* 1..MaxCap.                                                              *)
(* Chapter i is named <i><letter> and comes from the archive               *)
(* <i><letter>.cbz with pages 1.jpg, 2.jpg, ...                            *)
(***************************************************************************)
RECURSIVE TotalPages(_)
TotalPages(sh) == IF sh = <<>> THEN 0 ELSE Head(sh).pages + TotalPages(Tail(sh))

Shelves == {sh \in UNION {[1..k -> [letter : {Ord.a, Ord.b}, pages : 1..MaxUnits]] :
                            k \in 0..MaxChapters} :
              TotalPages(sh) <= MaxUnits}

ShelfChapter(sh, j) == str(j) \o <<sh[j].letter>>
ShelfPages(sh, j) == [p \in 1..sh[j].pages |-> str(p) \o ExtJpg]

ShelfFiles(sh) ==
    [f \in {ShelfChapter(sh, j) \o ExtCbz : j \in 1..Len(sh)} |->
        LET j == CHOOSE h \in 1..Len(sh) : ShelfChapter(sh, h) \o ExtCbz = f
        IN  ArchiveFile(f, ShelfPages(sh, j))]

ShelfExtracted(sh) ==
    [c \in {ShelfChapter(sh, j) : j \in 1..Len(sh)} |->
        LET j == CHOOSE h \in 1..Len(sh) : ShelfChapter(sh, h) = c
        IN  [e \in {ShelfPages(sh, j)[p] : p \in 1..sh[j].pages} |-> <<c \o ExtCbz, e>>]]

RECURSIVE StageAll(_, _, _)
StageAll(chapters, ex, isPdf) ==
    IF chapters = <<>> THEN EmptyMap
    ELSE Overwrite(StageAll(Tail(chapters), ex, isPdf),
                   UnitsOf(Head(chapters), ex[Head(chapters)],
                           Cardinality(DOMAIN ex[Head(chapters)]), isPdf))

Patterns == {{Ord.a, Ord.b}, {Ord.a}, {Ord.z}}

InitMerge ==
    /\ call = NoCall
    /\ ret = Pending
    /\ \E pdf \in BOOLEAN :
          args \in {ArgsOf(pdf, FALSE, {})} \cup {ArgsOf(pdf, TRUE, pat) : pat \in Patterns}
    /\ CPU_COUNT = 1
    /\ cap \in IF args.pdf THEN 1..MaxCap ELSE {OpenFilesCap}
    /\ pc = "transform"
    /\ exc = ""
    /\ \E sh \in Shelves :
          /\ topfiles = ShelfFiles(sh)
          /\ extracted = ShelfExtracted(sh)
          /\ staging = StageAll(listdir(DOMAIN extracted), extracted, args.pdf)
    /\ topdirs = {EXTRACT_DIR, ZIP_DIR}
    /\ volfiles = EmptyMap
    /\ pool = <<[pc |-> "done", q |-> <<>>, exc |-> ""]>>
    /\ dirs = <<natsorted(listdir(DOMAIN extracted))>>
    /\ ti = 1
    /\ tw = <<[pc |-> "running", q |-> <<>>]>>
    /\ MergeIdle
    /\ faults = 0
    /\ crashed = {}
    /\ prev = <<>>

SpecMerge == InitMerge /\ [][NextMerge]_vars

(***************************************************************************)
(* Direct calls of the partitioner: SpecPart draws a list and a number of  *)
(* groups, and CallGroupZips applies groupZips to them.                    *)
(***************************************************************************)
Names == {<<65, 46, 99, 98, 122>>,          \* "A.cbz"
          <<66, 46, 99, 98, 122>>,          \* "B.cbz"
          <<110, 46, 116, 120, 116>>}       \* "n.txt"

RECURSIVE ListsUpTo(_)
ListsUpTo(k) ==
    IF k = 0 THEN {<<>>}
    ELSE LET shorter == ListsUpTo(k - 1)
         IN  shorter \cup {Append(l, x) : l \in {m \in shorter : Len(m) = k - 1},
                                          x \in Names}

\* no run of main() is under way
PipeIdle ==
    /\ args = ArgsOf(FALSE, FALSE, {})
    /\ CPU_COUNT = 1
    /\ cap = OpenFilesCap
    /\ pc = "idle"
    /\ exc = ""
    /\ topfiles = EmptyMap
    /\ topdirs = {}
    /\ extracted = EmptyMap
    /\ staging = EmptyMap
    /\ volfiles = EmptyMap
    /\ pool = <<>>
    /\ dirs = <<>>
    /\ ti = 0
    /\ tw = NoWorker
    /\ MergeIdle
    /\ faults = 0
    /\ crashed = {}
    /\ prev = <<>>

pipeVars == <<args, CPU_COUNT, cap, pc, exc, topfiles, topdirs, extracted, staging,
              volfiles, pool, dirs, ti, tw, volumes, allImgs, imgsSets, queue,
              counter, mi, merger, faults, crashed, prev>>

InitPart ==
    /\ call \in [zips : ListsUpTo(MaxLen), n : (-1)..MaxP]
    /\ ret = Pending
    /\ PipeIdle

CallGroupZips ==
    /\ ret = Pending
    /\ ret' = Return(groupZips(call.zips, call.n))
    /\ UNCHANGED <<call, pipeVars>>

NextPart == CallGroupZips

SpecPart == InitPart /\ [][NextPart]_vars

\* the round-robin interleaving of groups: the first items of the groups in
\* group order, then their second items, ...
RECURSIVE RoundRobin(_, _, _)
RoundRobin(groups, round, g) ==
    IF \A h \in 1..Len(groups) : Len(groups[h]) < round THEN <<>>
    ELSE IF g > Len(groups) THEN RoundRobin(groups, round + 1, 1)
    ELSE (IF round <= Len(groups[g]) THEN <<groups[g][round]>> ELSE <<>>)
         \o RoundRobin(groups, round, g + 1)

\* C5: for every list L and P >= 1, groupZips(L, P) returns exactly P groups
\* whose round-robin interleaving is L and whose sizes differ by at most 1.
C5_PartitionReconstruction ==
    (ret # Pending /\ call.n >= 1) =>
        /\ ret.exc = ""
        /\ Len(ret.val) = call.n
        /\ RoundRobin(ret.val, 1, 1) = call.zips
        /\ \A g, h \in 1..call.n : Len(ret.val[g]) - Len(ret.val[h]) <= 1

\* a call with more items than groups and an uneven split has returned
C5_Witness ==
    /\ ret # Pending
    /\ call.n = 3
    /\ Len(call.zips) = 4
    /\ Len(ret.val[1]) = 2
    /\ Len(ret.val[3]) = 1

\* C8: groupZips called with P <= 0 fails with ConfigurationError for every
\* input list and never returns a partition result.
C8_InvalidParallelismFails ==
    (ret # Pending /\ call.n <= 0) => ret.exc = "ConfigurationError"

(***************************************************************************)
(* Properties of the merge stage, stated for SpecMerge.                    *)
(***************************************************************************)
\* the page stream mergeImages and getVolumes read
PageStream == natsorted(listdir(DOMAIN staging))

\* the length of the longest prefix of imgs whose units all have key k
RECURSIVE RunLen(_, _, _)
RunLen(imgs, pat, k) ==
    IF imgs = <<>> \/ re_search(pat, imgs[1]).m # k THEN 0
    ELSE 1 + RunLen(Tail(imgs), pat, k)

\* the maximal runs of equal keys of imgs, in stream order
RECURSIVE RunsOf(_, _)
RunsOf(imgs, pat) ==
    IF imgs = <<>> THEN <<>>
    ELSE LET k == re_search(pat, imgs[1]).m
             n == RunLen(imgs, pat, k)
         IN  <<[k |-> k, v |-> SubSeq(imgs, 1, n)]>>
             \o RunsOf(SubSeq(imgs, n + 1, Len(imgs)), pat)

\* C1: when every unit name matches the pattern, getVolumes returns one
\* entry per maximal contiguous run of equal keys, in stream order, each
\* holding exactly that run's units: a key that reappears non-contiguously
\* starts a new entry and the earlier entry for that key is kept.
C1_ContiguousRuns ==
    (args.volumize /\ pc \in {"volumes", "done"}) =>
        volumes = RunsOf(PageStream, args.pat)

RECURSIVE Flatten(_)
Flatten(seqs) == IF seqs = <<>> THEN <<>> ELSE Head(seqs) \o Flatten(Tail(seqs))

Sizes(seqs) == [j \in 1..Len(seqs) |-> Len(seqs[j])]

\* mergeImages is in, or has completed, its default branch for documents
InPdfBranch == askIfPdf(args) /\ ~args.volumize /\ pc \in {"pdf", "cleanup", "done"}

\* C3: segmentImgs returns batches that all have size cap except possibly
\* the last, which has between 1 and cap units when there are units at all,
\* and whose concatenation in order is the input list; one intermediate is
\* composed per batch, in batch order, and the intermediates are composed in
\* that order, so the final document has the units in input order. 600
\* units with cap 250 give batches of 250, 250 and 100.
C3_BatchThenCompose ==
    /\ InPdfBranch =>
          /\ allImgs = PageStream
          /\ Flatten(imgsSets) = allImgs
          /\ \A j \in 1..(Len(imgsSets) - 1) : Len(imgsSets[j]) = cap
          /\ Len(imgsSets) >= 1
          /\ Len(imgsSets[Len(imgsSets)]) <= cap
          /\ allImgs # <<>> => Len(imgsSets[Len(imgsSets)]) >= 1
          /\ \A j \in 1..Len(queue) :
                /\ queue[j] = TempPath(args, j - 1)
                /\ (pc = "pdf" /\ queue[j] \in DOMAIN topfiles) =>
                      topfiles[queue[j]].body = PdfPages(imgsSets[j])
          /\ pc = "pdf" => merger = PdfPages(Flatten(SubSeq(imgsSets, 1, mi)))
          /\ pc \in {"cleanup", "done"} =>
                topfiles[ARCHIVE(args)].body = PdfPages(allImgs)
    /\ (pc = "pdf" /\ counter = 0) =>
          Sizes(segmentImgs([j \in 1..600 |-> j], OpenFilesCap)) = <<250, 250, 100>>

\* a document merge of three batches, the last one short, has completed
C3_Witness ==
    /\ InPdfBranch
    /\ pc = "done"
    /\ Sizes(imgsSets) = <<2, 2, 1>>
    /\ Len(topfiles[ARCHIVE(args)].body) = 5

\* no unit name of the staging directory matches the pattern
NoUnitMatches == \A u \in DOMAIN staging : ~re_search(args.pat, u).found

\* C6: in volumized mode, if no unit name matches the pattern, the Volume
\* Grouper fails with PatternMismatchError, no makeVolume is started and no
\* output artifact is written.
C6_PatternMismatchFails ==
    (args.volumize /\ NoUnitMatches /\ pc # "transform") =>
        /\ pc = "failed"
        /\ exc = "PatternMismatchError"
        /\ mi = 0
        /\ volfiles = EmptyMap

\* the paths of the intermediate documents mergeImages has asked for
TempPaths == {TempPath(args, n) : n \in 0..(counter - 1)}

\* C7: once a document merge has completed and the run is Done, every
\* intermediate document made for it has been deleted: the final document
\* is there and none of the temporary paths is a file any more.
C7_IntermediatesDeleted ==
    (askIfPdf(args) /\ pc = "done") =>
        /\ ~args.volumize => ARCHIVE(args) \in DOMAIN topfiles
        /\ counter = Len(imgsSets)
        /\ TempPaths \cap DOMAIN topfiles = {}
        /\ queue = <<>>

\* a document merge that made two intermediates is Done
C7_Witness ==
    /\ askIfPdf(args)
    /\ ~args.volumize
    /\ pc = "done"
    /\ counter = 2
    /\ ARCHIVE(args) \in DOMAIN topfiles

(***************************************************************************)
(* Properties of whole runs, stated for Spec.                              *)
(***************************************************************************)
\* every chapter has been handled by a transform worker that did not fail
TransformedAll ==
    /\ TransformOver \/ pc \in {"volumes", "pdf", "cleanup", "zip", "done"}
    /\ \A c \in crashed : c[1] # "transform"

\* the units of chapter dir in page order
ChapterStream(dir) ==
    LET pages == natsorted(listdir(DOMAIN extracted[dir]))
    IN  [j \in 1..Len(pages) |-> UnitName(dir, j - 1, pages[j], askIfPdf(args))]

RECURSIVE ConcatStreams(_)
ConcatStreams(chapters) ==
    IF chapters = <<>> THEN <<>>
    ELSE ChapterStream(Head(chapters)) \o ConcatStreams(Tail(chapters))

\* the canonical page stream: the chapters in natural order of their names,
\* each chapter's units in index order
CanonicalStream == ConcatStreams(natsorted(listdir(DOMAIN extracted)))

\* C2: after the Page Transformer has handled all chapters, the natural sort
\* of the unit names of the staging directory is the canonical page stream.
C2_GlobalOrdering == TransformedAll => PageStream = CanonicalStream

\* the source archives of the run and their pages
SourceArchives == {f \in DOMAIN topfiles : f # ARCHIVE(args) /\ topfiles[f].type = "zip"}
SourcePages == UNION {{<<f, topfiles[f].body[j].name>> : j \in 1..Len(topfiles[f].body)} :
                        f \in SourceArchives}

\* page p comes strictly before page q in the original order: by chapter
\* name, then by entry name
PageBefore(p, q) ==
    LET c == NatCmp(ChapterOf(p[1]), ChapterOf(q[1]))
    IN  \/ c < 0
        \/ p[1] = q[1] /\ NatCmp(p[2], q[2]) < 0

\* C4: a run in archive mode without grouping on a fresh directory produces
\* an archive whose entries are exactly the pages of the source archives,
\* one entry per page with that page's content, in the original relative
\* order of the pages.
C4_RoundTrip ==
    (pc = "done" /\ ~askIfPdf(args) /\ ~args.volumize /\ crashed = {}) =>
        LET body == topfiles[ARCHIVE(args)].body
        IN  /\ Len(body) = Cardinality(SourcePages)
            /\ {body[j].data : j \in 1..Len(body)} = SourcePages
            /\ \A j, h \in 1..Len(body) :
                  j < h => ~PageBefore(body[h].data, body[j].data)

\* C9: makeDirectory on a directory that is there never raises and changes
\* nothing, also when two extraction workers call it for the same chapter
\* directory, in any interleaving.
C9_MakeDirectoryIdempotent ==
    \A w \in 1..Len(pool) : pool[w].exc # "FileExistsError"

\* C10: if a worker of any stage fails with an unhandled error, the run
\* never reaches Done.
C10_FailFast == crashed # {} => pc # "done"

(***************************************************************************)
(* Properties of the output artifacts, stated for SpecMerge.               *)
(***************************************************************************)
\* what an artifact of the given format holds when it holds all of units
Complete(isPdf, units) == IF isPdf THEN PdfPages(units) ELSE ZipEntries(units)

\* the destination path of the artifact of volume entry j
VolumePath(j) == volumes[j].k \o ARCHIVE_EXT(args)

\* C11: at every point of a run, also after a merge that failed part-way,
\* the destination path of an output artifact either does not exist or
\* holds the artifact with all units of its output unit, never a proper
\* prefix of them, in archive format as well as document format.
C11_ArtifactAtomicity ==
    /\ (~args.volumize /\ ARCHIVE(args) \in DOMAIN topfiles) =>
          topfiles[ARCHIVE(args)].body = Complete(askIfPdf(args), PageStream)
    /\ args.volumize =>
          \A j \in 1..Len(volumes) :
              VolumePath(j) \in DOMAIN volfiles =>
                  volfiles[VolumePath(j)].body = Complete(askIfPdf(args), volumes[j].v)

\* the numbers of source documents appended to each PdfWriter so far: by
\* makeTempPdf for the batches, by mergeImages for the final document, by
\* makeVolume for the volumes
Composed ==
    IF ~askIfPdf(args) THEN {}
    ELSE IF args.volumize
    THEN IF pc \in {"volumes", "done"}
         THEN {Len(volumes[j].v) : j \in 1..mi} ELSE {}
    ELSE IF pc \in {"pdf", "cleanup", "done"}
         THEN {Len(imgsSets[j]) : j \in 1..counter} \cup {mi} ELSE {}

\* C12: in document format, in default mode and in volumized mode alike, no
\* PdfWriter ever composes more source documents than the cap (250), for
\* every size of unit list or volume.
C12_BoundedComposition == \A n \in Composed : n <= cap

\* C16: every intermediate file the pipeline creates lives under the
\* extraction root or the staging root and never in the directory that
\* holds the final output artifact: every file of that directory is a source
\* archive or the final artifact, and after a failed run the artifact found
\* there is complete.
C16_TransientLocation ==
    ~args.volumize =>
        /\ \A f \in DOMAIN topfiles : f \in SourceArchives \/ f = ARCHIVE(args)
        /\ (pc = "failed" /\ ARCHIVE(args) \in DOMAIN topfiles) =>
              topfiles[ARCHIVE(args)].body = Complete(askIfPdf(args), PageStream)

\* the unit lists of the output artifacts of a volumized run, in the order
\* of the volumes
VolumeBodies == [j \in 1..Len(volumes) |-> volfiles[VolumePath(j)].body]

\* C17: in volumized mode, when every unit name matches the pattern and all
\* merges succeed, the unit lists of the output artifacts, concatenated in
\* volume order, are the page stream: every unit is written into exactly one
\* artifact, none is dropped or written twice, also when a key reappears
\* non-contiguously.
C17_VolumizedCompleteness ==
    (args.volumize /\ pc = "done" /\ crashed = {}) =>
        /\ \A j \in 1..Len(volumes) : VolumePath(j) \in DOMAIN volfiles
        /\ Flatten(VolumeBodies) = Complete(askIfPdf(args), PageStream)

(***************************************************************************)
(* Properties of the stages of a run, stated for Spec.                     *)
(***************************************************************************)
\* the source archives whose pages are in chapter directory c
Writers(c) == {extracted[c][e][1] : e \in DOMAIN extracted[c]}

\* extraction task w is creating, or unpacking into, a chapter directory
Extracting(w) == pool[w].pc \in {"mkdir", "unzip"}

\* C13: for every set of source archives and every partition into
\* extraction workers, each chapter directory is created and written by one
\* Extractor invocation: it holds the pages of one archive only, and no two
\* extraction workers are at work in the same chapter directory, also when
\* two archives share a stem (A.cbz and A.zip).
C13_ExtractionOwnership ==
    /\ \A c \in DOMAIN extracted : Cardinality(Writers(c)) <= 1
    /\ \A w, v \in 1..Len(pool) :
          (w # v /\ Extracting(w) /\ Extracting(v)) =>
              ChapterOf(Head(pool[w].q)) # ChapterOf(Head(pool[v].q))

\* the chapter directories handed to the transform workers
Partitioned == UNION {{dirs[g][j] : j \in 1..Len(dirs[g])} : g \in 1..Len(dirs)}

\* C14: the listing of chapter directories is not taken and no transform
\* worker is started until every extraction worker of the pool has completed
\* all of its archives; the listing then holds every chapter directory.
C14_ExtractionBarrier ==
    (dirs # <<>> \/ tw # <<>>) =>
        /\ \A w \in 1..Len(pool) : pool[w].pc = "done" /\ pool[w].q = <<>>
        /\ Partitioned = DOMAIN extracted

\* a transform worker is at work on chapters that a pool of two extraction
\* workers has extracted
C14_Witness ==
    /\ Len(pool) = 2
    /\ Cardinality(DOMAIN extracted) = 2
    /\ tw # <<>>
    /\ tw[1].pc = "running"
    /\ tw[1].q # <<>>

\* a transform worker process that has work left
Active(p) == p.pc = "running" /\ p.q # <<>>

\* C15: at every point of a run at most one transform worker process is
\* active: the worker of partition i+1 is started only after the worker of
\* partition i has terminated, and the merge stage starts only after the
\* last transform worker has terminated.
C15_OneTransformer ==
    /\ Cardinality({i \in 1..Len(tw) : Active(tw[i])}) <= 1
    /\ \A i \in 1..(Len(tw) - 1) : ~Active(tw[i])
    /\ pc \notin {"start", "extract", "transform"} =>
          /\ Len(tw) = Len(dirs)
          /\ \A i \in 1..Len(tw) : ~Active(tw[i])

\* the second transform worker is at work after the first one has handled
\* its chapter and ended
C15_Witness ==
    /\ Len(tw) = 2
    /\ Active(tw[2])
    /\ dirs[1] # <<>>
    /\ tw[1].pc = "running"
    /\ tw[1].q = <<>>

(***************************************************************************)
(* Properties of repeated runs, stated for SpecRerun.                      *)
(***************************************************************************)
\* C18: a second run of the pipeline on the same directory, after a
\* successful run in default archive mode, yields an output archive with
\* the unit sequence of the first run; the output archive of the first run
\* is not extracted as a source archive and contributes no units.
C18_RerunIdempotence ==
    (prev # <<>> /\ ~askIfPdf(args) /\ pc = "done" /\ crashed = {}) =>
        /\ topfiles[ARCHIVE(args)].body = prev[Len(prev)].body
        /\ ChapterOf(ARCHIVE(args)) \notin DOMAIN extracted

====
